---- MODULE Spec2Model ----
(***************************************************************************)
(* Model of words.py: Word / Wordle records, WordList construction         *)
(* (filter, dedupe, length bins, one processBin task per length submitted  *)
(* to a ProcessPoolExecutor and joined at the end of the with-block) and   *)
(* main's JSON / pickle export.                                            *)
(*                                                                         *)
(* A string is a sequence of one-character strings.  A Word object is      *)
(* identified by its `original` (the key of WordList.words); references to *)
(* Word objects (bin values, entries of an anagram list) are originals.    *)
(***************************************************************************)
EXTENDS Integers, Sequences, FiniteSets, TLC

VARIABLES
    pc,        \* position of main: start, waiting, constructed, jsondone, done, notfound
    exists,    \* wordpath.exists() and wordpath.is_file()
    lines,     \* wordpath.read_text().splitlines()
    words,     \* WordList.words of the parent process, in dict order
    bins,      \* WordList.bins of the parent process: length -> dict in order
    tasks,     \* futures: length -> state of the submitted processBin call
    local,     \* per task, the worker process's unpickled copy of the Word objects
    visits,    \* per task, the pairs (a, b) its loop has processed so far
    jsonOut,   \* what json.dump wrote, or None
    pickleOut  \* what pickle.dump wrote, or None

vars == <<pc, exists, lines, words, bins, tasks, local, visits, jsonOut, pickleOut>>

\* an optional value: None, or Some(x) with content Content
None == <<>>
Some(x) == <<x>>
Content(opt) == opt[1]

-----------------------------------------------------------------------------
(* Bounds and inputs *)

MaxLines == 3
MaxWorkers == 2
MINLEN == 3

cat == <<"c", "a", "t">>
act == <<"a", "c", "t">>
Cat == <<"C", "a", "t">>
tac == <<"t", "a", "c">>
coat == <<"c", "o", "a", "t">>
TO == <<"T", "O">>
c4t == <<"c", "4", "t">>

Vocabulary == {cat, act, Cat, tac, coat, TO, c4t}
MinLenArgs == {0, 2, 4}
MaxWordsArgs == {0, 2}

RECURSIVE SeqsUpTo(_, _)
SeqsUpTo(S, n) ==
    IF n = 0 THEN {<<>>}
    ELSE LET shorter == SeqsUpTo(S, n - 1)
         IN  shorter \cup {Append(s, x) : s \in {t \in shorter : Len(t) = n - 1}, x \in S}

-----------------------------------------------------------------------------
(* str methods *)

LowerLetters == {"a", "c", "o", "t"}
UpperLetters == {"A", "C", "O", "T"}
LowerMap == [ch \in UpperLetters |->
                CASE ch = "A" -> "a" [] ch = "C" -> "c" [] ch = "O" -> "o" [] ch = "T" -> "t"]

LowerCh(ch) == IF ch \in UpperLetters THEN LowerMap[ch] ELSE ch
StrLower(s) == [i \in 1..Len(s) |-> LowerCh(s[i])]
StrIsUpper(s) == /\ \E i \in 1..Len(s) : s[i] \in UpperLetters
                 /\ \A i \in 1..Len(s) : s[i] \notin LowerLetters
StrReverse(s) == [i \in 1..Len(s) |-> s[Len(s) + 1 - i]]

\* re.compile("^[a-zA-Z]{minlen,}$").match(line)
WordReMatch(line, minlen) ==
    /\ Len(line) >= minlen
    /\ Len(line) >= 1
    /\ \A i \in 1..Len(line) : line[i] \in LowerLetters \cup UpperLetters

-----------------------------------------------------------------------------
(* Word *)

\* collections.Counter(s): the letters of s, each with its number of occurrences
Counter(s) ==
    [ch \in {s[i] : i \in 1..Len(s)} |-> Cardinality({i \in 1..Len(s) : s[i] = ch})]

\* Counter.__getitem__: zero for a missing key
CounterGet(counts, letter) == IF letter \in DOMAIN counts THEN counts[letter] ELSE 0

WordleInit == [position |-> 0, common |-> 0]

WordInit(word) ==
    LET lower == StrLower(word)
        acronym == StrIsUpper(word)
    IN  [original   |-> word,
         word       |-> lower,
         length     |-> Len(lower),
         acronym    |-> acronym,
         proper     |-> (~acronym /\ word[1] \in UpperLetters),
         palindrome |-> (lower = StrReverse(lower)),
         counts     |-> Counter(lower),
         anagrams   |-> <<>>,
         subwords   |-> <<>>,
         wordle     |-> WordleInit]

isAnagram(self, other) == self.counts = other.counts

Min(a, b) == IF a <= b THEN a ELSE b

RECURSIVE SumOver(_, _)
SumOver(S, f) ==
    IF S = {} THEN 0
    ELSE LET x == CHOOSE y \in S : TRUE IN f[x] + SumOver(S \ {x}, f)

\* Word.wordleScore: the wordle of self after self.wordleScore(other)
wordleScore(self, other) ==
    IF self.length = other.length
    THEN [position |-> self.wordle.position
                       + Cardinality({i \in 1..Len(self.word) : self.word[i] = other.word[i]}),
          common   |-> self.wordle.common
                       + SumOver(DOMAIN self.counts,
                                 [letter \in DOMAIN self.counts |->
                                     Min(CounterGet(self.counts, letter),
                                         CounterGet(other.counts, letter))])]
    ELSE self.wordle

-----------------------------------------------------------------------------
(* dict helpers: a dict is a sequence of entries in insertion order *)

Keys(d) == {d[i].key : i \in 1..Len(d)}
IndexOf(d, k) == CHOOSE i \in 1..Len(d) : d[i].key = k
DictGet(d, k) == d[IndexOf(d, k)].value
\* d[k] = v: a new key is appended, an existing key keeps its place
DictSet(d, k, v) ==
    IF k \in Keys(d)
    THEN [d EXCEPT ![IndexOf(d, k)] = [key |-> k, value |-> v]]
    ELSE Append(d, [key |-> k, value |-> v])
Values(d) == [i \in 1..Len(d) |-> d[i].value]

\* the Word objects of a dict of words, by reference
Objects(d) == [o \in Keys(d) |-> DictGet(d, o)]

-----------------------------------------------------------------------------
(* Word.asDict / WordList.asDict: a JSON object is a sequence of <<key, value>> *)

WordleAsDict(wordle) == << <<"position", wordle.position>>, <<"common", wordle.common>> >>

\* asDict without the "subwords" entry
WordAsDictNoSubwords(self, heap) ==
    << <<"original", self.original>>,
       <<"word", self.word>>,
       <<"proper", self.proper>>,
       <<"palindrome", self.palindrome>>,
       <<"counts", self.counts>>,
       <<"anagrams", [i \in 1..Len(self.anagrams) |-> heap[self.anagrams[i]].word]>>,
       <<"wordle", WordleAsDict(self.wordle)>> >>

WordAsDict(self, heap) ==
    << <<"original", self.original>>,
       <<"word", self.word>>,
       <<"proper", self.proper>>,
       <<"palindrome", self.palindrome>>,
       <<"counts", self.counts>>,
       <<"anagrams", [i \in 1..Len(self.anagrams) |-> heap[self.anagrams[i]].word]>>,
       <<"subwords", [i \in 1..Len(self.anagrams) |-> heap[self.anagrams[i]].word]>>,
       <<"wordle", WordleAsDict(self.wordle)>> >>

WordListAsDict(d) ==
    [i \in 1..Len(d) |-> <<d[i].key, WordAsDict(d[i].value, Objects(d))>>]

-----------------------------------------------------------------------------
(* WordList.__init__: loading *)

\* kwargs.get("minlen") if kwargs.get("minlen") else MINLEN
MinLenOf(minlenArg) == IF minlenArg # 0 THEN minlenArg ELSE MINLEN

\* lines[:self.maxwords] when maxwords is set
Truncate(ls, maxwordsArg) ==
    IF maxwordsArg # 0 /\ maxwordsArg < Len(ls) THEN SubSeq(ls, 1, maxwordsArg) ELSE ls

\* {line: Word(line) for line in lines if wordre.match(line)}
RECURSIVE LoadWords(_, _, _)
LoadWords(ls, minlen, acc) ==
    IF ls = <<>> THEN acc
    ELSE LoadWords(Tail(ls), minlen,
                   IF WordReMatch(Head(ls), minlen)
                   THEN DictSet(acc, Head(ls), WordInit(Head(ls)))
                   ELSE acc)

\* the key under which a word is stored in its bin
BinKey(word) == word.word

\* for word in self.words.values(): self.bins[word.length][word.word] = word
RECURSIVE FillBin(_, _, _)
FillBin(ws, length, acc) ==
    IF ws = <<>> THEN acc
    ELSE FillBin(Tail(ws), length,
                 IF Head(ws).length = length
                 THEN DictSet(acc, BinKey(Head(ws)), Head(ws).original)
                 ELSE acc)

LoadBins(d) ==
    [length \in {d[i].value.length : i \in 1..Len(d)} |-> FillBin(Values(d), length, <<>>)]

-----------------------------------------------------------------------------
(* WordList.processBin *)

\* itertools.combinations(vals, 2), in the order the iterator yields
RECURSIVE PairsFrom(_, _, _, _)
PairsFrom(vals, i, j, off) ==
    IF i > Len(vals) THEN <<>>
    ELSE IF j > Len(vals) THEN PairsFrom(vals, i + 1, i + 1 + off, off)
    ELSE << <<vals[i], vals[j]>> >> \o PairsFrom(vals, i, j + 1, off)

\* itertools.combinations_with_replacement(vals, 2)
CombinationsWithReplacement(vals) == PairsFrom(vals, 1, 1, 0)

Combinations(vals) == PairsFrom(vals, 1, 2, 1)

\* one iteration of the loop body on the pair (a, b), in the heap of the
\* process that runs it
LoopBody(heap, a, b) ==
    LET h1 == IF isAnagram(heap[a], heap[b])
              THEN LET g == [heap EXCEPT ![a].anagrams = Append(@, b)]
                   IN  [g EXCEPT ![b].anagrams = Append(@, a)]
              ELSE heap
        h2 == [h1 EXCEPT ![a].wordle = wordleScore(h1[a], h1[b])]
    IN  [h2 EXCEPT ![b].wordle = wordleScore(h2[b], h2[a])]

\* a pool of threads: the task mutates the parent's own Word objects
ParentViewShared(parentWords, workerHeap) ==
    [i \in 1..Len(parentWords) |->
        [key |-> parentWords[i].key, value |-> workerHeap[parentWords[i].key]]]

\* ProcessPoolExecutor: the task runs on a pickled copy in another process,
\* so what the parent's self.words holds after a worker's step is unchanged
ParentView(parentWords, workerHeap) == parentWords

Finished(l) == tasks[l].state \in {"done", "failed"}

\* shutdown(wait=False): the with-block ends at once
NoWait == TRUE

\* ProcessPoolExecutor.__exit__: shutdown(wait=True)
AllFinished == \A l \in DOMAIN tasks : Finished(l)

Running == {l \in DOMAIN tasks : tasks[l].state = "running"}

-----------------------------------------------------------------------------
(* Actions *)

Init ==
    /\ pc = "start"
    /\ exists \in BOOLEAN
    /\ lines \in SeqsUpTo(Vocabulary, MaxLines)
    /\ words = <<>>
    /\ bins = <<>>
    /\ tasks = <<>>
    /\ local = <<>>
    /\ visits = <<>>
    /\ jsonOut = None
    /\ pickleOut = None

\* WordList.__init__ on a missing source: FileNotFoundError, main exits
SourceNotFound ==
    /\ pc = "start"
    /\ ~exists
    /\ pc' = "notfound"
    /\ UNCHANGED <<exists, lines, words, bins, tasks, local, visits, jsonOut, pickleOut>>

\* WordList.__init__ up to the submission of the tasks
Construct ==
    /\ pc = "start"
    /\ exists
    /\ \E minlenArg \in MinLenArgs, maxwordsArg \in MaxWordsArgs :
         LET ws == LoadWords(Truncate(lines, maxwordsArg), MinLenOf(minlenArg), <<>>)
             bs == LoadBins(ws)
         IN  /\ words' = ws
             /\ bins' = bs
             /\ tasks' = [l \in DOMAIN bs |-> [state |-> "pending", i |-> 0]]
             /\ local' = [l \in DOMAIN bs |-> Objects(ws)]
             /\ visits' = [l \in DOMAIN bs |-> <<>>]
    /\ pc' = "waiting"
    /\ UNCHANGED <<exists, lines, jsonOut, pickleOut>>

\* a pool worker picks the task up
TaskStart(l) ==
    /\ tasks[l].state = "pending"
    /\ Cardinality(Running) < MaxWorkers
    /\ tasks' = [tasks EXCEPT ![l].state = "running"]
    /\ UNCHANGED <<pc, exists, lines, words, bins, local, visits, jsonOut, pickleOut>>

\* one iteration of processBin's loop
TaskStep(l) ==
    /\ tasks[l].state = "running"
    /\ LET pairs == Combinations(Values(bins[l]))
       IN  /\ tasks[l].i < Len(pairs)
           /\ LET p == pairs[tasks[l].i + 1]
                  h == LoopBody(local[l], p[1], p[2])
              IN  /\ local' = [local EXCEPT ![l] = h]
                  /\ visits' = [visits EXCEPT ![l] = Append(@, p)]
                  /\ words' = ParentView(words, h)
           /\ tasks' = [tasks EXCEPT ![l].i = @ + 1]
    /\ UNCHANGED <<pc, exists, lines, bins, jsonOut, pickleOut>>

\* return i, with i bound by at least one iteration
TaskReturn(l) ==
    /\ tasks[l].state = "running"
    /\ tasks[l].i = Len(Combinations(Values(bins[l])))
    /\ tasks[l].i > 0
    /\ tasks' = [tasks EXCEPT ![l].state = "done"]
    /\ UNCHANGED <<pc, exists, lines, words, bins, local, visits, jsonOut, pickleOut>>

\* return i, with i never bound: UnboundLocalError, kept in the future
TaskRaise(l) ==
    /\ tasks[l].state = "running"
    /\ Len(Combinations(Values(bins[l]))) = 0
    /\ tasks[l].i = 0
    /\ tasks' = [tasks EXCEPT ![l].state = "failed"]
    /\ UNCHANGED <<pc, exists, lines, words, bins, local, visits, jsonOut, pickleOut>>

\* the end of the with-block; no future's result() is read
Join ==
    /\ pc = "waiting"
    /\ AllFinished
    /\ pc' = "constructed"
    /\ UNCHANGED <<exists, lines, words, bins, tasks, local, visits, jsonOut, pickleOut>>

\* main: if args.json: json.dump(words.asDict(), outfile)
DumpJson ==
    /\ pc = "constructed"
    /\ \E argsJson \in BOOLEAN :
         jsonOut' = IF argsJson THEN Some(WordListAsDict(words)) ELSE None
    /\ pc' = "jsondone"
    /\ UNCHANGED <<exists, lines, words, bins, tasks, local, visits, pickleOut>>

\* main: if args.pickle: pickle.dump(words, outfile)
DumpPickle ==
    /\ pc = "jsondone"
    /\ \E argsPickle \in BOOLEAN :
         pickleOut' = IF argsPickle THEN Some(words) ELSE None
    /\ pc' = "done"
    /\ UNCHANGED <<exists, lines, words, bins, tasks, local, visits, jsonOut>>

Next ==
    \/ SourceNotFound
    \/ Construct
    \/ \E l \in DOMAIN tasks : TaskStart(l)
    \/ \E l \in DOMAIN tasks : TaskStep(l)
    \/ \E l \in DOMAIN tasks : TaskReturn(l)
    \/ \E l \in DOMAIN tasks : TaskRaise(l)
    \/ Join
    \/ DumpJson
    \/ DumpPickle

Spec == Init /\ [][Next]_vars

-----------------------------------------------------------------------------
(* The stated relations, defined on normalized strings *)

Occurrences(x, letter) == Cardinality({i \in 1..Len(x) : x[i] = letter})
LettersOf(x) == {x[i] : i \in 1..Len(x)}

\* equal letter multisets
SameLetters(x, y) ==
    \A letter \in LettersOf(x) \cup LettersOf(y) : Occurrences(x, letter) = Occurrences(y, letter)

\* number of indices at which two words of one length hold the same letter
PositionDelta(x, y) == Cardinality({i \in 1..Len(x) : x[i] = y[i]})

\* multiset overlap over the letters of either word
CommonDelta(x, y) ==
    LET letters == LettersOf(x) \cup LettersOf(y)
    IN  SumOver(letters, [letter \in letters |->
                            Min(Occurrences(x, letter), Occurrences(y, letter))])

Elems(s) == {s[i] : i \in 1..Len(s)}

Constructed == pc \in {"constructed", "jsondone", "done"}
Loaded == pc \in {"waiting", "constructed", "jsondone", "done"}

\* the Word object of the parent process with the given original
Canonical(o) == DictGet(words, o)

\* C1: once construction has returned, every record of WordList.words has the
\* anagram list and the similarity totals of the record that the worker task
\* of its length class produced for it.
C1_WorkerResultSupersedes ==
    Constructed =>
        \A o \in Keys(words) :
            LET mine == Canonical(o)
                theirs == local[mine.length][o]
            IN  /\ mine.anagrams = theirs.anagrams
                /\ mine.wordle = theirs.wordle

\* C2: in the final collection, for all distinct records A and B, B is in A's
\* anagram list iff A is in B's, iff A and B have equal letter multisets.
C2_AnagramsSymmetricAndExact ==
    Constructed =>
        \A A \in Keys(words), B \in Keys(words) :
            A # B =>
                /\ (B \in Elems(Canonical(A).anagrams)) <=> (A \in Elems(Canonical(B).anagrams))
                /\ (B \in Elems(Canonical(A).anagrams))
                       <=> SameLetters(Canonical(A).word, Canonical(B).word)

\* C3: in the final collection, each record's position total is the sum over
\* every other record of its length of the matching indices, and its common
\* total the sum over the same records of the multiset overlap.
C3_TotalsAreSumsOverClass ==
    Constructed =>
        \A A \in Keys(words) :
            LET others == {B \in Keys(words) \ {A} : Canonical(B).length = Canonical(A).length}
            IN  /\ Canonical(A).wordle.position =
                       SumOver(others, [B \in others |->
                                   PositionDelta(Canonical(A).word, Canonical(B).word)])
                /\ Canonical(A).wordle.common =
                       SumOver(others, [B \in others |->
                                   CommonDelta(Canonical(A).word, Canonical(B).word)])

\* C4: if a per-length task has failed, construction does not complete
\* normally and neither the JSON export nor the snapshot is written.
C4_FailurePropagates ==
    (\E l \in DOMAIN tasks : tasks[l].state = "failed") =>
        /\ ~Constructed
        /\ jsonOut = None
        /\ pickleOut = None

\* C5: the exports start only after construction has returned, and by then
\* every submitted task has finished: no export runs while a task is pending
\* or running.
C5_ExportAfterJoin ==
    (Constructed \/ jsonOut # None \/ pickleOut # None) =>
        \A l \in DOMAIN tasks :
            tasks[l].state # "pending" /\ tasks[l].state # "running"

C5_Witness ==
    /\ jsonOut # None
    /\ pickleOut # None
    /\ \E l1 \in DOMAIN tasks, l2 \in DOMAIN tasks :
           l1 # l2 /\ tasks[l1].state = "done" /\ tasks[l2].state = "failed"

\* C6: after loading, every record of WordList.words is in exactly one
\* partition of WordList.bins, the one keyed by its length, and each
\* partition has as many entries as there are records of that length.
C6_PartitionComplete ==
    Loaded =>
        /\ \A o \in Keys(words) :
               {l \in DOMAIN bins : o \in Elems(Values(bins[l]))} = {Canonical(o).length}
        /\ \A l \in DOMAIN bins :
               Len(bins[l]) = Cardinality({o \in Keys(words) : Canonical(o).length = l})

JsonKeys(obj) == [i \in 1..Len(obj) |-> obj[i][1]]
JsonValue(obj, k) == obj[CHOOSE i \in 1..Len(obj) : obj[i][1] = k][2]

\* C7 as stated: every exported object has exactly the keys original, word,
\* proper, palindrome, counts, anagrams, wordle, in this order.
C7_KeysAsStated ==
    jsonOut # None =>
        \A i \in 1..Len(Content(jsonOut)) :
            JsonKeys(Content(jsonOut)[i][2]) =
                <<"original", "word", "proper", "palindrome", "counts", "anagrams", "wordle">>

\* C7 amended: the export has one object per record of WordList.words, keyed
\* by its line, and every object has exactly the keys original, word, proper,
\* palindrome, counts, anagrams, subwords, wordle, in this order, with wordle
\* holding position and common.
C7_KeysWithSubwords ==
    jsonOut # None =>
        /\ JsonKeys(Content(jsonOut)) = [i \in 1..Len(words) |-> words[i].key]
        /\ \A i \in 1..Len(Content(jsonOut)) :
               /\ JsonKeys(Content(jsonOut)[i][2]) =
                      <<"original", "word", "proper", "palindrome", "counts", "anagrams",
                        "subwords", "wordle">>
               /\ JsonKeys(JsonValue(Content(jsonOut)[i][2], "wordle")) = <<"position", "common">>

C7_Witness == jsonOut # None /\ Len(Content(jsonOut)) >= 2

\* C8: a step changes a worker's copy of a record only in the task of the
\* record's length class, and no step writes WordList.words while a task is
\* pending or running.
C8_DisjointMutation ==
    [][ /\ \A l \in DOMAIN local \cap DOMAIN local' :
               \A o \in DOMAIN local[l] :
                   local'[l][o] # local[l][o] =>
                       /\ local[l][o].length = l
                       /\ tasks[l].state = "running"
        /\ (\E l \in DOMAIN tasks : tasks[l].state \in {"pending", "running"})
               => words' = words ]_vars

C8_Witness ==
    \E l1 \in DOMAIN tasks, l2 \in DOMAIN tasks :
        /\ l1 # l2
        /\ tasks[l1].state = "running"
        /\ tasks[l2].state = "running"
        /\ visits[l1] # <<>>
        /\ \E o \in DOMAIN local[l1] : local[l1][o].wordle.common > 0

\* the visits of task l that involve record a, and the other record of each
VisitsOf(l, a) == {k \in 1..Len(visits[l]) : a \in {visits[l][k][1], visits[l][k][2]}}
OtherOf(l, k, a) == IF visits[l][k][1] = a THEN visits[l][k][2] ELSE visits[l][k][1]

C10_SmallClassCompletes ==
    \A l \in DOMAIN tasks :
        Len(bins[l]) < 2 => tasks[l].state # "failed"

====
